---- MODULE Spec2Model ----
(***************************************************************************)
(* The run-cycle protocol between WorkerProcessingEngine (main thread),    *)
(* the Command Handler it calls, and the Script Host running in the        *)
(* background worker (py_worker).                                          *)
(*                                                                         *)
(* Two execution contexts exchange messages through two ordered queues:    *)
(* toWorker (worker.postMessage) and toHost (self.postMessage).  Every     *)
(* message handler runs to completion, together with the promise           *)
(* reactions it triggers in the same microtask checkpoint, so each handler *)
(* is one action.  The Command Handler is an external collaborator: each   *)
(* promise it returns stays pending until the handler settles it, with a   *)
(* Response or with a rejection, at a time of its own choosing.            *)
(***************************************************************************)
EXTENDS Naturals, Sequences, FiniteSets, TLC

\* Number of script steps (pyScript.send calls) explored per session.
MaxSteps == 3

\* Session identifiers the Engine may be constructed with: any string.
SessionIds == {"abc123", "1700000000"}

\* The session identifiers that read as a Python integer literal.
IntegerLiterals == {"1700000000"}

(***************************************************************************)
(* Commands, Responses and Payloads.                                       *)
(***************************************************************************)
CommandSystemDonate(key, json_string) ==
    [type |-> "CommandSystemDonate", key |-> key, json_string |-> json_string]

CommandSystemEvent(name) ==
    [type |-> "CommandSystemEvent", name |-> name]

CommandUIRender(page) ==
    [type |-> "CommandUIRender", page |-> page]

\* The discriminator of types/commands: the three Command tags of the protocol.
isCommand(arg) ==
    arg.type \in {"CommandSystemDonate", "CommandSystemEvent", "CommandUIRender"}

PayloadVoid == [type |-> "PayloadVoid"]

PayloadString(value) == [type |-> "PayloadString", value |-> value]

PayloadFile(name) == [type |-> "PayloadFile", value |-> [name |-> name]]

\* Payloads a Command Handler may resolve with: absent, string, file.
Payloads ==
    {PayloadVoid, PayloadString("yes"), PayloadFile("data.json"), PayloadFile("chat.zip")}

Response(command, payload) ==
    [type |-> "Response", command |-> command, payload |-> payload]

\* Values the script may yield in one step, after toJs conversion: the three
\* Command variants and one value that is no Command.
ScriptYields ==
    { CommandUIRender([type |-> "PropsUIPageDonation", body |-> "PropsUIPromptConfirm"]),
      CommandSystemDonate("abc123-data", "{}"),
      CommandSystemEvent("progress"),
      [type |-> "NotACommand"] }

\* Errors that advancing the script, or converting what it yielded, may raise.
ScriptFaults ==
    { [name |-> "StopIteration", message |-> ""],
      [name |-> "PythonError", message |-> "ValueError: bad zip"] }

\* error.toString(): the name alone when the message is empty.
toString(error) ==
    IF error.message = "" THEN error.name ELSE error.name \o ": " \o error.message

VARIABLES
    sessionId,      \* Engine.sessionId
    started,        \* start() has been called
    initPromise,    \* the waitForInitialization promise: none, pending, resolved
    outstanding,    \* promises returned by commandHandler.onCommand whose
                    \* then-callbacks have not run yet
    engineError,    \* an exception escaped the Engine's worker.onmessage
    terminated,     \* worker.terminate() has been called
    toWorker,       \* messages posted to the worker, not yet received
    toHost,         \* messages posted by the worker, not yet received
    loading,        \* initialise() promises pending in the worker
    pyodide,        \* self.pyodide is set (runtime loaded)
    pyScript,       \* the live script generator: "unset" or the call that made it
    fs,             \* the worker's file system view of /file-input
    steps,          \* pyScript.send calls made so far
    lastInput,      \* <<payload>> of the latest pyScript.send, <<>> before
    lastOutcome,    \* <<outcome>> of the latest pyScript.send, <<>> before
    log,            \* history: calls and messages, in the order they happened
    props,          \* <<props>> handed to DonationPage, <<>> when there is none
    element         \* <<result>> of rendering DonationPage, <<>> before

vars == <<sessionId, started, initPromise, outstanding, engineError, terminated,
          toWorker, toHost, loading, pyodide, pyScript, fs, steps, lastInput,
          lastOutcome, log, props, element>>

engineVars == <<sessionId, started, initPromise, outstanding, engineError>>

workerVars == <<loading, pyodide, pyScript, fs, steps, lastInput, lastOutcome>>

pageVars == <<props, element>>

(***************************************************************************)
(* Helpers over the history.                                               *)
(***************************************************************************)
Count(l, e) == Cardinality({i \in DOMAIN l : l[i] = e})

Pos(l, e) == IF \E i \in DOMAIN l : l[i] = e
             THEN CHOOSE i \in DOMAIN l : l[i] = e /\ \A j \in 1..(i - 1) : l[j] # e
             ELSE 0

\* worker.postMessage: a terminated worker discards what is posted to it.
PostToWorker(queue, msgs) == IF terminated THEN queue ELSE queue \o msgs

PostLog(msgs) == [i \in DOMAIN msgs |-> "post:" \o msgs[i].eventType]

(***************************************************************************)
(* WorkerProcessingEngine.                                                 *)
(***************************************************************************)
Promise(origin, command) ==
    [origin |-> origin, command |-> command, status |-> "pending", response |-> <<>>]

\* JSON.stringify of an object with one string property.
JSONstringify(name, value) == "{\"" \o name \o "\":\"" \o value \o "\"}"

\* Variant of trackUserStart that uses the session identifier as the key.
trackUserStart_BareKey(sid) ==
    Promise("tracking",
            CommandSystemDonate(sid, JSONstringify("message", "user started")))

\* trackUserStart: the Donate issued by the constructor.
trackUserStart(sid) ==
    Promise("tracking",
            CommandSystemDonate(sid \o "-tracking", JSONstringify("message", "user started")))

\* sendSystemEvent(name)
sendSystemEvent(name) == Promise("systemEvent", CommandSystemEvent(name))

firstRunCycle == [eventType |-> "firstRunCycle", sessionId |-> sessionId]

nextRunCycle(response) == [eventType |-> "nextRunCycle", response |-> response]

\* Variant of handleRunCycle that does not wait for the handler: it posts
\* nextRunCycle in the same call that dispatches the Command.
handleRunCycle_NoWait(command) ==
    IF isCommand(command)
    THEN [promises |-> <<Promise("script", command)>>,
          posts |-> <<nextRunCycle(Response(command, PayloadVoid))>>]
    ELSE [promises |-> <<>>, posts |-> <<>>]

\* Variant of handleRunCycle without the isCommand test.
handleRunCycle_NoTest(command) ==
    [promises |-> <<Promise("script", command)>>, posts |-> <<>>]

\* handleRunCycle(command): the promises added and the messages posted
\* synchronously by the call.
handleRunCycle(command) ==
    IF isCommand(command)
    THEN [promises |-> <<Promise("script", command)>>, posts |-> <<>>]
    ELSE [promises |-> <<>>, posts |-> <<>>]

\* Variant of the then-callbacks that forwards the Response of any Command,
\* the Engine's own included.
onSettled_ForwardsAll(p) ==
    IF p.status = "fulfilled"
    THEN <<nextRunCycle(p.response[1])>>
    ELSE <<>>

\* Variant of the then-callbacks that answers a rejection like a fulfilment.
onSettled_ForwardsRejection(p) ==
    IF p.origin = "script" /\ p.status # "pending"
    THEN <<nextRunCycle(Response(p.command, PayloadVoid))>>
    ELSE <<>>

\* Variant of the then-callbacks that never posts.
onSettled_Silent(p) == <<>>

\* The then-callbacks attached to the promise of onCommand: the messages they
\* post once the promise has settled.
onSettled(p) ==
    IF p.origin = "script" /\ p.status = "fulfilled"
    THEN <<nextRunCycle(p.response[1])>>
    ELSE <<>>

\* Variant of the callback of start() that leaves firstRunCycle to the
\* callbacks of the initialized SystemEvent.
onInitialized_WaitsForHandler ==
    [promises |-> <<sendSystemEvent("initialized")>>, posts |-> <<>>]

\* The callback of start(): what runs once waitForInitialization resolves.
onInitialized ==
    [promises |-> <<sendSystemEvent("initialized")>>, posts |-> <<firstRunCycle>>]

\* new WorkerProcessingEngine(sessionId, worker, commandHandler) next to a
\* worker that has received nothing yet.
constructor ==
    /\ sessionId \in SessionIds
    /\ started = FALSE
    /\ initPromise = "none"
    /\ outstanding = <<trackUserStart(sessionId)>>
    /\ engineError = FALSE
    /\ terminated = FALSE
    /\ toWorker = <<>>
    /\ toHost = <<>>
    /\ loading = 0
    /\ pyodide = FALSE
    /\ pyScript = "unset"
    /\ fs = [exists |-> FALSE, mounted |-> FALSE, files |-> {}]
    /\ steps = 0
    /\ lastInput = <<>>
    /\ lastOutcome = <<>>
    /\ log = <<"onCommand:tracking">>

Init ==
    /\ constructor
    /\ props = <<>>
    /\ element = <<>>

\* Variant of start() that does not wait for initialiseDone.
Start_NoWait ==
    /\ ~started
    /\ started' = TRUE
    /\ initPromise' = "pending"
    /\ toWorker' = PostToWorker(toWorker, <<[eventType |-> "initialise"], firstRunCycle>>)
    /\ log' = log \o <<"post:initialise", "post:firstRunCycle">>
    /\ UNCHANGED <<sessionId, outstanding, engineError, terminated, toHost>>
    /\ UNCHANGED workerVars
    /\ UNCHANGED pageVars

\* start() and waitForInitialization().  The application calls start() once
\* per session (index.tsx), hence the guard.
Start ==
    /\ ~started
    /\ started' = TRUE
    /\ initPromise' = "pending"
    /\ toWorker' = PostToWorker(toWorker, <<[eventType |-> "initialise"]>>)
    /\ log' = Append(log, "post:initialise")
    /\ UNCHANGED <<sessionId, outstanding, engineError, terminated, toHost>>
    /\ UNCHANGED workerVars
    /\ UNCHANGED pageVars

\* Variant of the initialiseDone handler that runs the callback of start()
\* for every initialiseDone it receives after start().
ReceiveInitialiseDone_EveryTime ==
    /\ toHost # <<>>
    /\ Head(toHost).eventType = "initialiseDone"
    /\ toHost' = Tail(toHost)
    /\ IF initPromise # "none"
       THEN /\ initPromise' = "resolved"
            /\ outstanding' = outstanding \o onInitialized.promises
            /\ toWorker' = PostToWorker(toWorker, onInitialized.posts)
            /\ log' = log \o <<"recv:initialiseDone", "onCommand:systemEvent">>
                          \o PostLog(onInitialized.posts)
            /\ UNCHANGED engineError
       ELSE /\ engineError' = TRUE
            /\ log' = Append(log, "recv:initialiseDone")
            /\ UNCHANGED <<initPromise, outstanding, toWorker>>
    /\ UNCHANGED <<sessionId, started, terminated>>
    /\ UNCHANGED workerVars
    /\ UNCHANGED pageVars

\* worker.onmessage / handleEvent for an initialiseDone message, with the
\* reactions of the waitForInitialization promise.
ReceiveInitialiseDone ==
    /\ toHost # <<>>
    /\ Head(toHost).eventType = "initialiseDone"
    /\ toHost' = Tail(toHost)
    /\ CASE initPromise = "pending" ->
              /\ initPromise' = "resolved"
              /\ outstanding' = outstanding \o onInitialized.promises
              /\ toWorker' = PostToWorker(toWorker, onInitialized.posts)
              /\ log' = log \o <<"recv:initialiseDone">>
                            \o [i \in DOMAIN onInitialized.promises |->
                                  "onCommand:" \o onInitialized.promises[i].origin]
                            \o PostLog(onInitialized.posts)
              /\ UNCHANGED engineError
         [] initPromise = "resolved" ->
              /\ log' = Append(log, "recv:initialiseDone")
              /\ UNCHANGED <<initPromise, outstanding, toWorker, engineError>>
         [] OTHER ->
              \* resolveInitialized is not assigned yet: the call throws
              /\ engineError' = TRUE
              /\ log' = Append(log, "recv:initialiseDone")
              /\ UNCHANGED <<initPromise, outstanding, toWorker>>
    /\ UNCHANGED <<sessionId, started, terminated>>
    /\ UNCHANGED workerVars
    /\ UNCHANGED pageVars

\* worker.onmessage / handleEvent for a runCycleDone message.
ReceiveRunCycleDone ==
    /\ toHost # <<>>
    /\ Head(toHost).eventType = "runCycleDone"
    /\ LET effect == handleRunCycle(Head(toHost).scriptEvent) IN
         /\ outstanding' = outstanding \o effect.promises
         /\ toWorker' = PostToWorker(toWorker, effect.posts)
         /\ log' = log \o <<"recv:runCycleDone">>
                       \o [i \in DOMAIN effect.promises |->
                             "onCommand:" \o effect.promises[i].origin]
                       \o PostLog(effect.posts)
    /\ toHost' = Tail(toHost)
    /\ UNCHANGED <<sessionId, started, initPromise, engineError, terminated>>
    /\ UNCHANGED workerVars
    /\ UNCHANGED pageVars

\* The payloads the Command Handler resolves a Command with: whatever the
\* user did with a rendered page, an acknowledgement without payload for a
\* Donate or a SystemEvent.
PayloadsFor(command) ==
    IF command.type = "CommandUIRender" THEN Payloads ELSE {PayloadVoid}

\* The Command Handler settles one of its pending promises.
HandlerFulfil ==
    \E i \in DOMAIN outstanding : \E payload \in PayloadsFor(outstanding[i].command) :
        /\ outstanding[i].status = "pending"
        /\ outstanding' = [outstanding EXCEPT
               ![i].status = "fulfilled",
               ![i].response = <<Response(outstanding[i].command, payload)>>]
        /\ UNCHANGED <<sessionId, started, initPromise, engineError, terminated,
                       toWorker, toHost, log>>
        /\ UNCHANGED workerVars
        /\ UNCHANGED pageVars

HandlerReject ==
    \E i \in DOMAIN outstanding :
        /\ outstanding[i].status = "pending"
        /\ outstanding' = [outstanding EXCEPT ![i].status = "rejected"]
        /\ UNCHANGED <<sessionId, started, initPromise, engineError, terminated,
                       toWorker, toHost, log>>
        /\ UNCHANGED workerVars
        /\ UNCHANGED pageVars

Remove(s, i) == SubSeq(s, 1, i - 1) \o SubSeq(s, i + 1, Len(s))

\* The then-callbacks of a settled onCommand promise run.
React ==
    \E i \in DOMAIN outstanding :
        /\ outstanding[i].status # "pending"
        /\ outstanding' = Remove(outstanding, i)
        /\ toWorker' = PostToWorker(toWorker, onSettled(outstanding[i]))
        /\ log' = log \o PostLog(onSettled(outstanding[i]))
        /\ UNCHANGED <<sessionId, started, initPromise, engineError, terminated, toHost>>
        /\ UNCHANGED workerVars
        /\ UNCHANGED pageVars

\* Variant of terminate() that leaves the worker running.
terminate_KeepsWorker ==
    /\ \A i \in DOMAIN log : log[i] # "terminate"
    /\ log' = Append(log, "terminate")
    /\ UNCHANGED <<terminated, toWorker, toHost>>
    /\ UNCHANGED engineVars
    /\ UNCHANGED workerVars
    /\ UNCHANGED pageVars

\* terminate(): worker.terminate() stops the worker and discards the messages
\* queued in either direction.
terminate ==
    /\ ~terminated
    /\ terminated' = TRUE
    /\ toWorker' = <<>>
    /\ toHost' = <<>>
    /\ log' = Append(log, "terminate")
    /\ UNCHANGED engineVars
    /\ UNCHANGED workerVars
    /\ UNCHANGED pageVars

(***************************************************************************)
(* The Script Host (py_worker).                                            *)
(***************************************************************************)
null == [type |-> "null"]

directoryName == "/file-input"

\* generateErrorMessage(stacktrace)
generateErrorMessage(stacktrace) ==
    [type |-> "CommandUIRender",
     page |-> [type |-> "PropsUIPageError", stacktrace |-> stacktrace]]

\* Variant of copyFileToPyFS that resolves with the bare file name.
copyFileToPyFS_BareName(file, mountOk) ==
    IF fs.exists /\ ~fs.mounted
    THEN [fs |-> fs, resolved |-> <<>>]
    ELSE IF mountOk
         THEN [fs |-> [exists |-> TRUE, mounted |-> TRUE, files |-> {file.name}],
               resolved |-> <<PayloadString(file.name)>>]
         ELSE [fs |-> [exists |-> TRUE, mounted |-> FALSE, files |-> {}],
               resolved |-> <<>>]

\* copyFileToPyFS(file, resolve): the file system afterwards and what the
\* promise of unwrap resolved with (<<>> when an FS call threw before resolve).
\* mountOk: whether FS.mount accepts the file.
copyFileToPyFS(file, mountOk) ==
    IF fs.exists /\ ~fs.mounted
    THEN \* FS.unmount of a directory that is no mount point throws
         [fs |-> fs, resolved |-> <<>>]
    ELSE IF mountOk
         THEN [fs |-> [exists |-> TRUE, mounted |-> TRUE, files |-> {file.name}],
               resolved |-> <<PayloadString(directoryName \o "/" \o file.name)>>]
         ELSE [fs |-> [exists |-> TRUE, mounted |-> FALSE, files |-> {}],
               resolved |-> <<>>]

\* unwrap(response)
unwrap(response, mountOk) ==
    IF response.payload.type = "PayloadFile"
    THEN copyFileToPyFS(response.payload.value, mountOk)
    ELSE [fs |-> fs, resolved |-> <<response.payload>>]

\* self.pyodide.runPython(`port.start(${sessionId})`): the identifier is
\* spliced into the Python source as it is, without quotes, so Python
\* evaluates it as an expression: an integer literal is a value, anything
\* else is a name that is not defined.  portOk: whether port.start returns.
runPython(sid, portOk) ==
    IF sid \notin IntegerLiterals
    THEN [script |-> "unset", raised |-> "start:NameError"]
    ELSE IF portOk
         THEN [script |-> "port.start(" \o sid \o ")", raised |-> ""]
         ELSE [script |-> "unset", raised |-> "start:threw"]

\* What pyScript.send(payload) followed by toJs can do in one step.
StepOutcomes(script) ==
    IF script # "unset"
    THEN [kind : {"yield"}, value : ScriptYields] \cup [kind : {"raise"}, error : ScriptFaults]
    ELSE \* pyScript is undefined: the call itself throws
         [kind : {"raise"},
          error : {[name |-> "TypeError", message |-> "pyScript is undefined"]}]

\* Variant of runCycle without the catch block.
runCycle_NoCatch(outcome) ==
    IF outcome.kind = "yield"
    THEN <<[eventType |-> "runCycleDone", scriptEvent |-> outcome.value]>>
    ELSE <<>>

\* Variant of runCycle whose catch block is also run after a successful step,
\* so that the step reports twice.
runCycle_Twice(outcome) ==
    IF outcome.kind = "yield"
    THEN <<[eventType |-> "runCycleDone", scriptEvent |-> outcome.value],
           [eventType |-> "runCycleDone",
            scriptEvent |-> generateErrorMessage("undefined")]>>
    ELSE <<[eventType |-> "runCycleDone",
            scriptEvent |-> generateErrorMessage(toString(outcome.error))]>>

\* runCycle(payload): the messages posted for one step with the given outcome.
runCycle(outcome) ==
    IF outcome.kind = "yield"
    THEN <<[eventType |-> "runCycleDone", scriptEvent |-> outcome.value]>>
    ELSE <<[eventType |-> "runCycleDone",
            scriptEvent |-> generateErrorMessage(toString(outcome.error))]>>

WPostLog(msgs) == [i \in DOMAIN msgs |-> "wpost:" \o msgs[i].eventType]

\* onmessage, case 'initialise': initialise() starts loading the runtime.
WorkerInitialise ==
    /\ ~terminated
    /\ toWorker # <<>>
    /\ Head(toWorker).eventType = "initialise"
    /\ toWorker' = Tail(toWorker)
    /\ loading' = loading + 1
    /\ log' = Append(log, "wrecv:initialise")
    /\ UNCHANGED <<pyodide, pyScript, fs, steps, lastInput, lastOutcome, terminated, toHost>>
    /\ UNCHANGED engineVars
    /\ UNCHANGED pageVars

\* initialise() fulfils: the then-callback posts initialiseDone.
InitialiseFulfils ==
    /\ ~terminated
    /\ loading > 0
    /\ loading' = loading - 1
    /\ pyodide' = TRUE
    /\ toHost' = Append(toHost, [eventType |-> "initialiseDone"])
    /\ log' = Append(log, "wpost:initialiseDone")
    /\ UNCHANGED <<pyScript, fs, steps, lastInput, lastOutcome, terminated, toWorker>>
    /\ UNCHANGED engineVars
    /\ UNCHANGED pageVars

\* Variant in which the worker answers initialiseDone when initialise()
\* rejects as well.
InitialiseRejects_Answers ==
    /\ ~terminated
    /\ loading > 0
    /\ loading' = loading - 1
    /\ toHost' = Append(toHost, [eventType |-> "initialiseDone"])
    /\ log' = log \o <<"initialise:rejected", "wpost:initialiseDone">>
    /\ UNCHANGED <<pyodide, pyScript, fs, steps, lastInput, lastOutcome, terminated,
                   toWorker>>
    /\ UNCHANGED engineVars
    /\ UNCHANGED pageVars

\* initialise() rejects (runtime or packages fail to load): no callback is
\* attached for that case.
InitialiseRejects ==
    /\ ~terminated
    /\ loading > 0
    /\ loading' = loading - 1
    /\ log' = Append(log, "initialise:rejected")
    /\ UNCHANGED <<pyodide, pyScript, fs, steps, lastInput, lastOutcome, terminated,
                   toWorker, toHost>>
    /\ UNCHANGED engineVars
    /\ UNCHANGED pageVars

\* onmessage, case 'firstRunCycle': runPython(port.start(sessionId)), then
\* runCycle(null).
WorkerFirstRunCycle ==
    /\ ~terminated
    /\ toWorker # <<>>
    /\ Head(toWorker).eventType = "firstRunCycle"
    /\ steps < MaxSteps
    /\ toWorker' = Tail(toWorker)
    /\ \E portOk \in BOOLEAN :
         LET python == runPython(Head(toWorker).sessionId, portOk) IN
         IF pyodide /\ python.raised = ""
         THEN \E outcome \in StepOutcomes(python.script) :
                /\ pyScript' = python.script
                /\ steps' = steps + 1
                /\ lastInput' = <<null>>
                /\ lastOutcome' = <<outcome>>
                /\ toHost' = toHost \o runCycle(outcome)
                /\ log' = log \o <<"wrecv:firstRunCycle", "send">> \o WPostLog(runCycle(outcome))
         ELSE \* the exception leaves onmessage before runCycle is called
              /\ log' = log \o <<"wrecv:firstRunCycle",
                                  IF pyodide THEN python.raised ELSE "start:threw">>
              /\ UNCHANGED <<pyScript, steps, lastInput, lastOutcome, toHost>>
    /\ UNCHANGED <<loading, pyodide, fs, terminated>>
    /\ UNCHANGED engineVars
    /\ UNCHANGED pageVars

\* onmessage, case 'nextRunCycle': unwrap(response).then(runCycle)
WorkerNextRunCycle ==
    /\ ~terminated
    /\ toWorker # <<>>
    /\ Head(toWorker).eventType = "nextRunCycle"
    /\ steps < MaxSteps
    /\ toWorker' = Tail(toWorker)
    /\ \E mountOk \in BOOLEAN :
         LET u == unwrap(Head(toWorker).response, mountOk) IN
           /\ fs' = u.fs
           /\ IF u.resolved # <<>>
              THEN \E outcome \in StepOutcomes(pyScript) :
                     /\ steps' = steps + 1
                     /\ lastInput' = u.resolved
                     /\ lastOutcome' = <<outcome>>
                     /\ toHost' = toHost \o runCycle(outcome)
                     /\ log' = log \o <<"wrecv:nextRunCycle", "send">>
                                   \o WPostLog(runCycle(outcome))
              ELSE /\ log' = log \o <<"wrecv:nextRunCycle", "unwrap:threw">>
                   /\ UNCHANGED <<steps, lastInput, lastOutcome, toHost>>
    /\ UNCHANGED <<loading, pyodide, pyScript, terminated>>
    /\ UNCHANGED engineVars
    /\ UNCHANGED pageVars

Next ==
    \/ Start
    \/ ReceiveInitialiseDone
    \/ ReceiveRunCycleDone
    \/ HandlerFulfil
    \/ HandlerReject
    \/ React
    \/ terminate
    \/ WorkerInitialise
    \/ InitialiseFulfils
    \/ InitialiseRejects
    \/ WorkerFirstRunCycle
    \/ WorkerNextRunCycle

Spec == Init /\ [][Next]_vars

\* The composed system with fair scheduling: a message that was posted is
\* delivered to its onmessage handler (event loop of the page and of the
\* worker), and the callbacks of a settled promise run (microtask queue).
Fairness ==
    /\ WF_vars(ReceiveInitialiseDone)
    /\ WF_vars(ReceiveRunCycleDone)
    /\ WF_vars(React)
    /\ WF_vars(WorkerInitialise)
    /\ WF_vars(WorkerFirstRunCycle)
    /\ WF_vars(WorkerNextRunCycle)

FairSpec == Spec /\ Fairness

(***************************************************************************)
(* The Engine on its own: the worker side is any program at all.  It may   *)
(* post any message at any time and takes what is posted to it.            *)
(***************************************************************************)
\* Number of messages the arbitrary worker posts.
MaxDeliveries == 2

\* What an arbitrary worker may post: the two supported event types, with a
\* Command or with a value that is none, and an event type handleEvent does
\* not know.
WorkerMessages ==
    { [eventType |-> "initialiseDone"],
      [eventType |-> "progress"],
      [eventType |-> "runCycleDone",
       scriptEvent |-> CommandUIRender([type |-> "PropsUIPageDonation",
                                        body |-> "PropsUIPromptConfirm"])],
      [eventType |-> "runCycleDone", scriptEvent |-> [type |-> "NotACommand"]] }

\* Messages the Engine has received so far.
Received(l) ==
    {i \in DOMAIN l : l[i] \in {"recv:" \o m.eventType : m \in WorkerMessages}}

\* The worker posts a message.  What the worker does with the messages posted
\* to it is of no consequence to the Engine: they stay in toWorker.
AnyWorkerPosts ==
    /\ ~terminated
    /\ Cardinality(Received(log)) + Len(toHost) < MaxDeliveries
    /\ \E m \in WorkerMessages : toHost' = Append(toHost, m)
    /\ UNCHANGED <<terminated, toWorker, log>>
    /\ UNCHANGED engineVars
    /\ UNCHANGED workerVars
    /\ UNCHANGED pageVars

\* worker.onmessage / handleEvent, default case: the event is only logged.
ReceiveUnsupported ==
    /\ toHost # <<>>
    /\ Head(toHost).eventType \notin {"initialiseDone", "runCycleDone"}
    /\ toHost' = Tail(toHost)
    /\ log' = Append(log, "recv:" \o Head(toHost).eventType)
    /\ UNCHANGED <<terminated, toWorker>>
    /\ UNCHANGED engineVars
    /\ UNCHANGED workerVars
    /\ UNCHANGED pageVars

EngineNext ==
    \/ Start
    \/ ReceiveInitialiseDone
    \/ ReceiveRunCycleDone
    \/ ReceiveUnsupported
    \/ HandlerFulfil
    \/ HandlerReject
    \/ React
    \/ terminate
    \/ AnyWorkerPosts

EngineSpec == Init /\ [][EngineNext]_vars

(***************************************************************************)
(* The donation page (DonationPage).                                       *)
(***************************************************************************)
PromptTypes ==
    {"PropsUIPromptFileInput", "PropsUIPromptConfirm", "PropsUIPromptConsentForm",
     "PropsUIPromptRadioInput", "PropsUIPromptQuestionnaire"}

\* Bodies a page may arrive with: the five prompts and two values that are
\* none of them.
Bodies ==
    {[type |-> t, id |-> "prompt"] :
        t \in PromptTypes \cup {"PropsUIPromptText", "PropsUIPageEnd"}}

Footers ==
    {null, [type |-> "PropsUIFooter"]}
        \cup {[type |-> "PropsUIFooter", progressPercentage |-> n] : n \in {0, 50, 100}}

Titles == {"Select your file", "Your data"}

Locales == {"en", "nl"}

DonationPages ==
    [type : {"PropsUIPageDonation"}, header : [title : Titles],
     body : Bodies, footer : Footers, locale : Locales]

\* The type guards of types/prompts.
isPropsUIPromptFileInput(arg) == arg.type = "PropsUIPromptFileInput"

isPropsUIPromptConfirm(arg) == arg.type = "PropsUIPromptConfirm"

isPropsUIPromptConsentForm(arg) == arg.type = "PropsUIPromptConsentForm"

isPropsUIPromptRadioInput(arg) == arg.type = "PropsUIPromptRadioInput"

isPropsUIPromptQuestionnaire(arg) == arg.type = "PropsUIPromptQuestionnaire"

\* A JSX element <component {...body} {...context} />
Element(component, body, locale) ==
    [component |-> component, body |-> body, locale |-> locale]

\* Translator.translate(title, locale), kept symbolic.
translate(title, locale) == [text |-> title, locale |-> locale]

\* prepareCopy
prepareCopy(p) == [title |-> translate(p.header.title, p.locale)]

\* Variant of renderBody that renders a questionnaire for any body the first
\* four guards turn down.
renderBody_QuestionnaireOtherwise(p) ==
    IF isPropsUIPromptFileInput(p.body)
    THEN [threw |-> FALSE, rendered |-> <<Element("FileInput", p.body, p.locale)>>]
    ELSE IF isPropsUIPromptConfirm(p.body)
    THEN [threw |-> FALSE, rendered |-> <<Element("Confirm", p.body, p.locale)>>]
    ELSE IF isPropsUIPromptConsentForm(p.body)
    THEN [threw |-> FALSE, rendered |-> <<Element("ConsentForm", p.body, p.locale)>>]
    ELSE IF isPropsUIPromptRadioInput(p.body)
    THEN [threw |-> FALSE, rendered |-> <<Element("RadioInput", p.body, p.locale)>>]
    ELSE [threw |-> FALSE, rendered |-> <<Element("Questionnaire", p.body, p.locale)>>]

\* renderBody(props): the elements it returns, or the exception it throws.
renderBody(p) ==
    IF isPropsUIPromptFileInput(p.body)
    THEN [threw |-> FALSE, rendered |-> <<Element("FileInput", p.body, p.locale)>>]
    ELSE IF isPropsUIPromptConfirm(p.body)
    THEN [threw |-> FALSE, rendered |-> <<Element("Confirm", p.body, p.locale)>>]
    ELSE IF isPropsUIPromptConsentForm(p.body)
    THEN [threw |-> FALSE, rendered |-> <<Element("ConsentForm", p.body, p.locale)>>]
    ELSE IF isPropsUIPromptRadioInput(p.body)
    THEN [threw |-> FALSE, rendered |-> <<Element("RadioInput", p.body, p.locale)>>]
    ELSE IF isPropsUIPromptQuestionnaire(p.body)
    THEN [threw |-> FALSE, rendered |-> <<Element("Questionnaire", p.body, p.locale)>>]
    ELSE [threw |-> TRUE, rendered |-> <<>>]

\* renderFooter(props): <<Footer>> with the progress bar, or nothing.
renderFooter(p) ==
    IF p.footer # null
    THEN <<[component |-> "Footer",
            middle |-> [component |-> "Progress",
                        percentage |-> IF "progressPercentage" \in DOMAIN p.footer
                                       THEN p.footer.progressPercentage
                                       ELSE 0]]>>
    ELSE <<>>

\* DonationPage(props): the Page element, or the TypeError of renderBody.
DonationPage(p) ==
    LET title == prepareCopy(p).title
        footer == renderFooter(p)
        body == renderBody(p)
    IN IF body.threw
       THEN [type |-> "TypeError", message |-> "Unknown body type"]
       ELSE [type |-> "Page",
             body |-> <<[component |-> "Title1", text |-> title]>> \o body.rendered,
             footer |-> footer]

\* A page to render, next to an Engine that was just constructed.
RenderInit ==
    /\ constructor
    /\ props \in {<<p>> : p \in DonationPages}
    /\ element = <<>>

\* React calls DonationPage with the props.
Render ==
    /\ props # <<>>
    /\ element = <<>>
    /\ element' = <<DonationPage(props[1])>>
    /\ UNCHANGED <<props, terminated, toWorker, toHost, log>>
    /\ UNCHANGED engineVars
    /\ UNCHANGED workerVars

\* React renders again after the body of the page was replaced.
Update ==
    /\ element # <<>>
    /\ \E body \in Bodies :
         /\ body # props[1].body
         /\ props' = <<[props[1] EXCEPT !.body = body]>>
         /\ element' = <<DonationPage(props'[1])>>
    /\ UNCHANGED <<terminated, toWorker, toHost, log>>
    /\ UNCHANGED engineVars
    /\ UNCHANGED workerVars

RenderNext == Render \/ Update

RenderSpec == RenderInit /\ [][RenderNext]_vars

TypeOK ==
    /\ started \in BOOLEAN
    /\ initPromise \in {"none", "pending", "resolved"}
    /\ terminated \in BOOLEAN
    /\ engineError \in BOOLEAN
    /\ steps \in 0..MaxSteps
    /\ Len(lastInput) <= 1
    /\ Len(lastOutcome) <= 1

(***************************************************************************)
(* Properties.                                                             *)
(***************************************************************************)
\* Script promises handed out by onCommand whose callbacks have not run.
ScriptPromises == {i \in DOMAIN outstanding : outstanding[i].origin = "script"}

Pending == {i \in DOMAIN outstanding : outstanding[i].status = "pending"}

CycleMsgs(queue) ==
    {i \in DOMAIN queue :
        queue[i].eventType \in {"firstRunCycle", "nextRunCycle", "runCycleDone"}}

IsCyclePost(e) == e \in {"post:firstRunCycle", "post:nextRunCycle"}

\* Odd positions of l satisfy the test, even positions do not.
Alternates(l, IsOdd(_)) == \A i \in DOMAIN l : IsOdd(l[i]) <=> (i % 2 = 1)

\* C1: the Engine posts nextRunCycle only in the reaction to a script promise
\* that has settled; at that step the promise leaves the outstanding ones and
\* one message is posted.  As long as the promise of a Command has not been
\* reacted to, no nextRunCycle has been posted for it.
C1_NextRunCycleOnlyAfterSettled ==
    /\ [](Count(log, "post:nextRunCycle") + Cardinality(ScriptPromises)
             <= Count(log, "onCommand:script"))
    /\ [][Count(log', "post:nextRunCycle") # Count(log, "post:nextRunCycle") =>
            /\ Count(log', "post:nextRunCycle") = Count(log, "post:nextRunCycle") + 1
            /\ \E i \in ScriptPromises :
                  /\ outstanding[i].status # "pending"
                  /\ outstanding' = Remove(outstanding, i)]_vars

C1_Witness ==
    /\ Count(log, "post:nextRunCycle") >= 1
    /\ \E i \in ScriptPromises : outstanding[i].status = "pending"

\* C2: in the composed system at most one run-cycle message or Command is in
\* flight, the Engine's cycle posts alternate with the runCycleDone messages
\* it receives, and the Script Host's runCycleDone posts alternate with the
\* cycle messages it receives.
C2_StrictAlternation ==
    /\ Cardinality(CycleMsgs(toWorker)) + Cardinality(CycleMsgs(toHost))
          + Cardinality(ScriptPromises) <= 1
    /\ Alternates(SelectSeq(log, LAMBDA e : IsCyclePost(e) \/ e = "recv:runCycleDone"),
                  IsCyclePost)
    /\ Alternates(SelectSeq(log, LAMBDA e : IsCyclePost(e) \/ e = "wpost:runCycleDone"),
                  IsCyclePost)
    /\ Alternates(SelectSeq(log, LAMBDA e : e \in {"wrecv:firstRunCycle", "wrecv:nextRunCycle",
                                                   "wpost:runCycleDone"}),
                  LAMBDA e : e # "wpost:runCycleDone")
    /\ Count(log, "post:nextRunCycle") <= Count(log, "onCommand:script")

C2_Witness ==
    /\ Count(log, "wpost:runCycleDone") = 2
    /\ Count(log, "post:nextRunCycle") = 1
    /\ Cardinality(CycleMsgs(toHost)) = 1

\* C3 as stated: at most one Command of any origin (tracking Donate,
\* initialized SystemEvent, script Command) is pending at the Command Handler.
C3_AtMostOnePendingOfAnyOrigin == Cardinality(Pending) <= 1

\* C3 amended: at most one script Command is outstanding at the Command
\* Handler; the tracking Donate and the initialized SystemEvent are not
\* waited for, so at most three Commands are pending in all, one per origin.
C3_AtMostOneScriptCommand ==
    /\ Cardinality(ScriptPromises) <= 1
    /\ \A i, j \in DOMAIN outstanding :
          outstanding[i].origin = outstanding[j].origin => i = j
    /\ Cardinality(Pending) <= 3

C3_Witness ==
    /\ Cardinality(Pending) = 3
    /\ Cardinality(ScriptPromises) = 1

Before(a, b) == Pos(log, b) # 0 => (Pos(log, a) # 0 /\ Pos(log, a) < Pos(log, b))

LastPos(l, e) == IF \E i \in DOMAIN l : l[i] = e
                 THEN CHOOSE i \in DOMAIN l : l[i] = e /\ \A j \in (i + 1)..Len(l) : l[j] # e
                 ELSE 0

C4Order ==
    /\ Count(log, "post:initialise") = (IF started THEN 1 ELSE 0)
    /\ Count(log, "wpost:initialiseDone") <= 1
    /\ Count(log, "post:firstRunCycle") <= 1
    /\ Before("post:initialise", "wpost:initialiseDone")
    /\ Before("wpost:initialiseDone", "recv:initialiseDone")
    /\ Before("recv:initialiseDone", "post:firstRunCycle")
    /\ Before("post:firstRunCycle", "wrecv:firstRunCycle")

\* The Script Host has received initialise and its initialise() has settled.
InitialiseSettled == Count(log, "wrecv:initialise") = 1 /\ loading = 0

\* C4 as stated: initialise, initialiseDone and firstRunCycle happen at most
\* once and in that order, and every initialise is answered by exactly one
\* initialiseDone once the Script Host is through with it.
C4_ExactlyOneInitialiseDone ==
    /\ C4Order
    /\ InitialiseSettled => Count(log, "wpost:initialiseDone") = 1
    /\ Count(log, "recv:initialiseDone") = 1 => Count(log, "post:firstRunCycle") = 1

\* C4 amended: initialise, initialiseDone and firstRunCycle happen at most
\* once and in that order, firstRunCycle never before initialiseDone is
\* received; the Script Host replies with one initialiseDone when its
\* initialise() fulfils and with none when it rejects, and the Engine posts
\* one firstRunCycle once it has received initialiseDone.
C4_InitialiseSequence ==
    /\ C4Order
    /\ InitialiseSettled =>
          Count(log, "wpost:initialiseDone") = 1 - Count(log, "initialise:rejected")
    /\ Count(log, "recv:initialiseDone") = 1 => Count(log, "post:firstRunCycle") = 1

C4_Witness ==
    /\ Count(log, "post:initialise") = 1
    /\ Count(log, "wpost:initialiseDone") = 1
    /\ Count(log, "wrecv:firstRunCycle") = 1

\* The Engine receives a runCycleDone message in this step.
RunCycleDoneReceived ==
    /\ toHost # <<>>
    /\ Head(toHost).eventType = "runCycleDone"
    /\ Count(log', "recv:runCycleDone") > Count(log, "recv:runCycleDone")

\* C5: receiving a runCycleDone whose value is no Command leaves the Command
\* Handler uncalled, posts nothing to the worker and raises no exception in
\* the Engine; nothing but terminate() ever follows a runCycleDone that was
\* not dispatched.
C5_UnrecognizedCommandHalts ==
    /\ [][RunCycleDoneReceived /\ ~isCommand(Head(toHost).scriptEvent) =>
            /\ outstanding' = outstanding
            /\ toWorker' = toWorker
            /\ engineError' = FALSE
            /\ log' = Append(log, "recv:runCycleDone")]_vars
    /\ [](\A i \in DOMAIN log :
            /\ log[i] = "recv:runCycleDone"
            /\ i < Len(log)
            /\ log[i + 1] # "onCommand:script"
            => \A j \in (i + 1)..Len(log) : log[j] = "terminate")

C5_Witness ==
    /\ log[Len(log)] = "recv:runCycleDone"
    /\ ~terminated
    /\ Count(log, "post:nextRunCycle") >= 1

\* Some script Command was rejected and its rejection callback has run.
Swallowed ==
    Count(log, "onCommand:script")
        > Count(log, "post:nextRunCycle") + Cardinality(ScriptPromises)

\* C6: the reaction to a rejected script promise posts nothing, dispatches
\* nothing and raises nothing; from then on no run-cycle message or Command
\* is in flight and nothing but terminate() follows the dispatch of the
\* rejected Command.
C6_RejectionSwallowed ==
    /\ [][\A i \in ScriptPromises :
             outstanding[i].status = "rejected" /\ outstanding' = Remove(outstanding, i)
             => /\ toWorker' = toWorker
                /\ toHost' = toHost
                /\ log' = log
                /\ engineError' = engineError]_vars
    /\ [](Swallowed =>
            /\ CycleMsgs(toWorker) = {}
            /\ CycleMsgs(toHost) = {}
            /\ ScriptPromises = {}
            /\ \A j \in (LastPos(log, "onCommand:script") + 1)..Len(log) :
                  log[j] = "terminate")

C6_Witness ==
    /\ Swallowed
    /\ ~terminated
    /\ Count(log, "post:nextRunCycle") >= 1

Description(error) ==
    CASE error.name = "StopIteration" -> "StopIteration"
      [] error.name = "PythonError" -> "PythonError: ValueError: bad zip"
      [] error.name = "TypeError" -> "TypeError: pyScript is undefined"

IsErrorPage(command) ==
    /\ command.type = "CommandUIRender"
    /\ command.page.type = "PropsUIPageError"

\* C8: a nextRunCycle step in which the script raises posts exactly one
\* runCycleDone, a CommandUIRender of a PropsUIPageError with the fault's
\* description; the Engine dispatches the error page to the Command Handler
\* as a script Command.
C8_ScriptFaultYieldsErrorPage ==
    /\ [][/\ Count(log', "send") > Count(log, "send")
           /\ Head(toWorker).eventType = "nextRunCycle"
           /\ lastOutcome'[1].kind = "raise"
           => toHost' = Append(toHost,
                  [eventType |-> "runCycleDone",
                   scriptEvent |->
                       [type |-> "CommandUIRender",
                        page |-> [type |-> "PropsUIPageError",
                                  stacktrace |-> Description(lastOutcome'[1].error)]]])]_vars
    /\ [][RunCycleDoneReceived /\ IsErrorPage(Head(toHost).scriptEvent) =>
            /\ outstanding' = Append(outstanding,
                                     Promise("script", Head(toHost).scriptEvent))
            /\ engineError' = FALSE]_vars

C8_Witness ==
    /\ Count(log, "send") >= 2
    /\ lastOutcome[1].kind = "raise"
    /\ \E i \in ScriptPromises :
          /\ IsErrorPage(outstanding[i].command)
          /\ outstanding[i].command.page.stacktrace = "PythonError: ValueError: bad zip"

\* C9: when a nextRunCycle step resumes the script, the input is the payload
\* of the Response as it came for the absent and the string variant, and for
\* a file named N it is the path string /file-input/N, with N the one file
\* mounted under /file-input.
C9_Unwrap ==
    [][/\ Count(log', "send") > Count(log, "send")
       /\ Head(toWorker).eventType = "nextRunCycle"
       => LET payload == Head(toWorker).response.payload IN
            /\ payload.type = "PayloadVoid" =>
                  lastInput' = <<[type |-> "PayloadVoid"]>> /\ fs' = fs
            /\ payload.type = "PayloadString" =>
                  lastInput' = <<[type |-> "PayloadString", value |-> payload.value]>>
                  /\ fs' = fs
            /\ payload.type = "PayloadFile" =>
                  /\ lastInput' = <<[type |-> "PayloadString",
                                     value |-> "/file-input/" \o payload.value.name]>>
                  /\ fs' = [exists |-> TRUE, mounted |-> TRUE,
                            files |-> {payload.value.name}]
            /\ payload = [type |-> "PayloadFile", value |-> [name |-> "data.json"]] =>
                  lastInput'[1].value = "/file-input/data.json"]_vars

C9_Witness ==
    /\ lastInput = <<[type |-> "PayloadString", value |-> "/file-input/data.json"]>>
    /\ fs.files = {"data.json"}
    /\ Count(log, "send") = 3

\* C10: the step that receives initialiseDone dispatches the initialized
\* SystemEvent and then posts firstRunCycle, in that order and in that same
\* step; firstRunCycle is therefore posted and delivered whether the promise
\* of the SystemEvent is pending, fulfilled or rejected.
C10_FirstRunCycleRegardless ==
    /\ [](Count(log, "recv:initialiseDone") >= 1 =>
            LET i == Pos(log, "recv:initialiseDone") IN
              /\ Len(log) >= i + 2
              /\ log[i + 1] = "onCommand:systemEvent"
              /\ log[i + 2] = "post:firstRunCycle")
    /\ [][Count(log', "recv:initialiseDone") > Count(log, "recv:initialiseDone") =>
            /\ outstanding' = Append(outstanding,
                   [origin |-> "systemEvent",
                    command |-> [type |-> "CommandSystemEvent", name |-> "initialized"],
                    status |-> "pending", response |-> <<>>])
            /\ toWorker' = Append(toWorker,
                   [eventType |-> "firstRunCycle", sessionId |-> sessionId])]_vars

C10_Witness ==
    /\ Count(log, "wrecv:firstRunCycle") = 1
    /\ \E i \in DOMAIN outstanding :
          outstanding[i].origin = "systemEvent" /\ outstanding[i].status = "rejected"

\* C11: a recognized Command received in a runCycleDone is dispatched once,
\* as one pending promise; every nextRunCycle is posted in the reaction to
\* one fulfilled script promise, which it consumes, and carries the Response
\* that promise was fulfilled with, a Response to that very Command; the
\* reactions to the tracking Donate and to the initialized SystemEvent post
\* nothing; there are never more nextRunCycle posts than script Commands
\* dispatched, nor more of these than runCycleDone messages received.
C11_ResponseAnswersOneCommand ==
    /\ [][RunCycleDoneReceived /\ isCommand(Head(toHost).scriptEvent) =>
            outstanding' = Append(outstanding,
                [origin |-> "script", command |-> Head(toHost).scriptEvent,
                 status |-> "pending", response |-> <<>>])]_vars
    /\ [][Count(log', "post:nextRunCycle") # Count(log, "post:nextRunCycle") =>
            \E i \in ScriptPromises :
               /\ outstanding[i].status = "fulfilled"
               /\ outstanding[i].response[1].command = outstanding[i].command
               /\ outstanding' = Remove(outstanding, i)
               /\ log' = Append(log, "post:nextRunCycle")
               /\ toWorker' = IF terminated THEN toWorker
                               ELSE Append(toWorker,
                                      [eventType |-> "nextRunCycle",
                                       response |-> outstanding[i].response[1]])]_vars
    /\ [][\A i \in DOMAIN outstanding :
             /\ outstanding[i].origin \in {"tracking", "systemEvent"}
             /\ outstanding' = Remove(outstanding, i)
             => toWorker' = toWorker /\ log' = log]_vars
    /\ [](/\ Count(log, "post:nextRunCycle") <= Count(log, "onCommand:script")
          /\ Count(log, "onCommand:script") <= Count(log, "recv:runCycleDone")
          /\ \A k \in DOMAIN toWorker :
                toWorker[k].eventType = "nextRunCycle" =>
                   /\ toWorker[k].response.command.type
                         \in {"CommandUIRender", "CommandSystemEvent", "CommandSystemDonate"}
                   /\ toWorker[k].response.command
                         # [type |-> "CommandSystemEvent", name |-> "initialized"]
                   /\ toWorker[k].response.command.type = "CommandSystemDonate" =>
                         toWorker[k].response.command.key # sessionId \o "-tracking")

C11_Witness ==
    /\ \E k \in DOMAIN toWorker :
          /\ toWorker[k].eventType = "nextRunCycle"
          /\ toWorker[k].response.command.type = "CommandSystemDonate"
    /\ \A i \in DOMAIN outstanding : outstanding[i].status = "fulfilled"
    /\ Len(outstanding) = 2

\* C12: whatever messages the worker delivers, the Engine has at most one
\* script Command with the Command Handler and never posts two nextRunCycle
\* messages without receiving a runCycleDone in between.
C12_EngineAloneOneInFlight ==
    /\ Cardinality(ScriptPromises) <= 1
    /\ LET cycle == SelectSeq(log, LAMBDA e : e \in {"recv:runCycleDone",
                                                     "post:nextRunCycle"})
       IN \A i \in 1..(Len(cycle) - 1) :
             ~(cycle[i] = "post:nextRunCycle" /\ cycle[i + 1] = "post:nextRunCycle")

\* C13: the waitForInitialization promise resolves only in the step that
\* receives an initialiseDone; before that no initialized SystemEvent is
\* dispatched and no firstRunCycle posted; while the worker's initialise() is
\* pending, and for good once it has rejected, the worker has posted nothing,
\* the promise is still pending and nothing but terminate() happens after
\* the rejection.
C13_InitialisationWait ==
    /\ [][initPromise # "resolved" /\ initPromise' = "resolved" =>
            /\ toHost # <<>>
            /\ Head(toHost).eventType = "initialiseDone"
            /\ toHost' = Tail(toHost)]_vars
    /\ [](Count(log, "recv:initialiseDone") = 0 =>
            /\ initPromise # "resolved"
            /\ Count(log, "onCommand:systemEvent") = 0
            /\ Count(log, "post:firstRunCycle") = 0)
    /\ [](loading > 0 \/ Count(log, "initialise:rejected") > 0 =>
            /\ initPromise = "pending"
            /\ toHost = <<>>
            /\ \A i \in DOMAIN log :
                  log[i] \notin {"wpost:initialiseDone", "wpost:runCycleDone",
                                 "recv:initialiseDone", "onCommand:systemEvent",
                                 "post:firstRunCycle"}
            /\ \A j \in (Pos(log, "initialise:rejected") + 1)..Len(log) :
                  Pos(log, "initialise:rejected") # 0 => log[j] = "terminate")

C13_Witness ==
    /\ Count(log, "initialise:rejected") = 1
    /\ ~terminated
    /\ outstanding = <<>>

\* C19: initialiseDone messages received once the waitForInitialization
\* promise is resolved change nothing in the Engine; the initialized
\* SystemEvent is dispatched and firstRunCycle posted exactly once when the
\* promise is resolved, and not at all before.
C19_InitialiseDoneIdempotent ==
    /\ [][/\ Count(log', "recv:initialiseDone") > Count(log, "recv:initialiseDone")
           /\ initPromise = "resolved"
           => /\ UNCHANGED <<initPromise, outstanding, toWorker, engineError, started>>
              /\ log' = Append(log, "recv:initialiseDone")]_vars
    /\ [](/\ Count(log, "onCommand:systemEvent")
               = (IF initPromise = "resolved" THEN 1 ELSE 0)
          /\ Count(log, "post:firstRunCycle")
               = (IF initPromise = "resolved" THEN 1 ELSE 0))

C19_Witness ==
    /\ initPromise = "resolved"
    /\ ~engineError
    /\ Count(log, "recv:initialiseDone") = 2
    /\ Count(log, "post:firstRunCycle") = 1

\* Number of cycle messages (firstRunCycle, nextRunCycle) the worker received.
CyclesReceived(l) == Count(l, "wrecv:firstRunCycle") + Count(l, "wrecv:nextRunCycle")

\* C16: once the handler of a firstRunCycle or nextRunCycle message has run,
\* the Script Host has posted exactly one runCycleDone for it, fault or not.
C16_OneRunCycleDonePerCycleMessage ==
    Count(log, "wpost:runCycleDone") = CyclesReceived(log)

\* C17: every firstRunCycle message carries the Engine's session identifier;
\* once the Script Host has handled it (port.start itself not failing), the
\* script is the one started with that identifier and its first step was
\* sent null; no nextRunCycle is posted before the first runCycleDone.
C17_FirstRunCycleStartsScript ==
    /\ \A k \in DOMAIN toWorker :
          toWorker[k].eventType = "firstRunCycle" => toWorker[k].sessionId = sessionId
    /\ Count(log, "wrecv:firstRunCycle") > 0 /\ Count(log, "start:threw") = 0 =>
          /\ pyScript = "port.start(" \o sessionId \o ")"
          /\ steps >= 1
          /\ steps = 1 => lastInput = <<null>>
          /\ Count(log, "wpost:runCycleDone") >= 1
    /\ \A i \in DOMAIN log :
          log[i] = "post:nextRunCycle" =>
             \E j \in 1..(i - 1) : log[j] = "wpost:runCycleDone"

\* C18: the tracking Donate is the first thing the Engine does and is
\* dispatched once, with key <sessionId>-tracking and json_string
\* {"message":"user started"}, before start() and before any post to the
\* worker; the step that runs the callbacks of its promise, fulfilled or
\* rejected, posts nothing.
C18_TrackingDonate ==
    /\ [](/\ log[1] = "onCommand:tracking"
          /\ Count(log, "onCommand:tracking") = 1
          /\ Len(log) = 1 =>
                /\ ~started
                /\ toWorker = <<>>
                /\ Len(outstanding) <= 1
          /\ \A i \in DOMAIN outstanding :
                outstanding[i].origin = "tracking" =>
                   outstanding[i].command =
                      [type |-> "CommandSystemDonate",
                       key |-> sessionId \o "-tracking",
                       json_string |-> "{\"message\":\"user started\"}"])
    /\ [][\A i \in DOMAIN outstanding :
            /\ outstanding[i].origin = "tracking"
            /\ outstanding[i].status # "pending"
            /\ outstanding' = Remove(outstanding, i)
            => UNCHANGED <<toWorker, toHost, log>>]_vars

C18_Witness ==
    /\ ~started
    /\ outstanding = <<>>
    /\ toWorker = <<>>
    /\ log = <<"onCommand:tracking">>

\* A runCycleDone whose value is no Command was posted by the worker.
Unrecognized ==
    \/ \E k \in DOMAIN toHost :
          /\ toHost[k].eventType = "runCycleDone"
          /\ ~isCommand(toHost[k].scriptEvent)
    \/ Count(log, "recv:runCycleDone") > Count(log, "onCommand:script")

\* The Command Handler rejected a script Command.
ScriptRejected ==
    \/ \E i \in ScriptPromises : outstanding[i].status = "rejected"
    \/ Swallowed

\* The Script Host failed outside runCycle and yielded nothing.
NothingYielded ==
    \E i \in DOMAIN log : log[i] \in {"start:threw", "start:NameError", "unwrap:threw"}

\* One of the conditions under which the run cycle is not promised to go on.
CycleBroken == terminated \/ Unrecognized \/ ScriptRejected \/ NothingYielded

\* C14: with fair delivery and a Command Handler that leaves no promise
\* pending for ever, the n-th runCycleDone leads to the n-th nextRunCycle
\* (a fulfilled script promise always does) and the n-th nextRunCycle to the
\* (n+1)-th runCycleDone (up to the bound on the number of steps), unless
\* the worker was terminated, the script yielded no recognized Command or
\* the handler rejected one.
C14_CycleRepeats ==
    WF_vars(HandlerFulfil) =>
      \A n \in 1..MaxSteps :
        /\ (Count(log, "wpost:runCycleDone") >= n)
              ~> (Count(log, "post:nextRunCycle") >= n \/ CycleBroken)
        /\ (/\ Count(log, "post:nextRunCycle") = n - 1
            /\ \E i \in ScriptPromises : outstanding[i].status = "fulfilled")
              ~> (Count(log, "post:nextRunCycle") >= n)
        /\ n < MaxSteps =>
              ((Count(log, "post:nextRunCycle") >= n)
                 ~> (Count(log, "wpost:runCycleDone") >= n + 1 \/ CycleBroken))

C14_Witness ==
    /\ ~CycleBroken
    /\ Count(log, "wpost:runCycleDone") = MaxSteps
    /\ Count(log, "post:nextRunCycle") = MaxSteps

\* The prompt elements among the children of a rendered page.
Prompts(page) ==
    {i \in DOMAIN page.body :
        page.body[i].component
            \in {"FileInput", "Confirm", "ConsentForm", "RadioInput", "Questionnaire"}}

\* C15: a rendered donation page holds exactly one prompt, the one that goes
\* with the type of the body and given the body; with a body of any other
\* type the render yields the TypeError 'Unknown body type' and no page.
C15_RenderBody ==
    element # <<>> =>
        LET body == props[1].body
            result == element[1]
        IN IF body.type \in PromptTypes
           THEN /\ result.type = "Page"
                /\ Cardinality(Prompts(result)) = 1
                /\ \A i \in Prompts(result) :
                      /\ result.body[i].body = body
                      /\ result.body[i].component =
                            CASE body.type = "PropsUIPromptFileInput" -> "FileInput"
                              [] body.type = "PropsUIPromptConfirm" -> "Confirm"
                              [] body.type = "PropsUIPromptConsentForm" -> "ConsentForm"
                              [] body.type = "PropsUIPromptRadioInput" -> "RadioInput"
                              [] body.type = "PropsUIPromptQuestionnaire" -> "Questionnaire"
           ELSE result = [type |-> "TypeError", message |-> "Unknown body type"]

C15_Witness ==
    /\ element # <<>>
    /\ props[1].body.type \notin PromptTypes
    /\ element[1].type = "TypeError"

====
